---- MODULE Spec2Model ----
(***************************************************************************)
(* Model of mylib_hello() (src/mylib/mylib.c): one OpenMP parallel region  *)
(* whose workers each read their thread number into a private variable and *)
(* print one line to stdout with printf.                                   *)
(*                                                                         *)
(* The host thread calls mylib_hello() repeatedly.  Each call forks a team *)
(* of N workers (N chosen by the runtime), the workers run the two         *)
(* statements of the block, and the call returns through the implicit      *)
(* barrier at the end of the region.                                       *)
(*                                                                         *)
(* Text is a sequence of one-character strings.  The variable writes holds *)
(* the text the stream stdout has accepted from printf, in the order it    *)
(* accepted it: this is what stdout carries.  When the stream passes the   *)
(* text on to the file descriptor (at a newline, when its buffer is full,  *)
(* at the host's fflush or exit) is the stream's buffering, which          *)
(* mylib_hello neither sets nor observes and which does not change the     *)
(* text; mylib_hello itself never flushes.                                 *)
(*                                                                         *)
(* The source arranges no mutual exclusion around printf.  On a stream     *)
(* that locks around each call (C11 7.21.2, POSIX flockfile; what stdout   *)
(* is unless the host changes it) a printf is one indivisible write.  On a *)
(* stream whose lock the host has switched off, the line is handed over in *)
(* its parts, between which other workers hand over theirs; and because    *)
(* two workers then access the stream without synchronisation (a data      *)
(* race), the behaviour of the program is undefined from there on: the     *)
(* process may be killed, text may be lost, repeated or replaced by memory *)
(* the program never stored.  The model keeps the interleaving of parts    *)
(* as states of its own and stands for every other outcome by the single   *)
(* state "undefined", in which nothing is known about stdout.              *)
(***************************************************************************)
EXTENDS Integers, Sequences, FiniteSets

VARIABLES
    phase,       \* "host": the caller is outside mylib_hello; "region": inside it;
                 \* "undefined": a data race has taken effect
    team,        \* team[c]: number of workers the runtime created for call c
    pc,          \* pc[w]: position of worker w of the current team
    tid,         \* tid[w]: the local variable tid of worker w, once assigned
    pos,         \* pos[w]: number of parts of its line worker w has handed over
    writes,      \* the text stdout has accepted, oldest first
    lineAtomic,  \* whether stdout locks, making one printf call one write
    raced        \* whether two workers of a team have used stdout unlocked

vars == <<phase, team, pc, tid, pos, writes, lineAtomic, raced>>

(* Bounds of the model. *)
MaxWorkers == 4
MaxWrites == 7

----------------------------------------------------------------------------
(* Sequences of characters. *)

RECURSIVE Flatten(_)
Flatten(ss) == IF ss = <<>> THEN <<>> ELSE Head(ss) \o Flatten(Tail(ss))

----------------------------------------------------------------------------
(* printf("[mylib] Hello from thread %d\n", tid) *)

Newline == "\n"

Prefix ==
    << "[", "m", "y", "l", "i", "b", "]", " ",
       "H", "e", "l", "l", "o", " ",
       "f", "r", "o", "m", " ",
       "t", "h", "r", "e", "a", "d", " " >>

DigitChars == << "0", "1", "2", "3", "4", "5", "6", "7", "8", "9" >>

Digit(d) == DigitChars[d + 1]

(* %d with a leading zero for one-digit values, as "%02d" would print. *)
RECURSIVE DecimalPadded(_)
DecimalPadded(n) ==
    IF n < 0 THEN <<"-">> \o DecimalPadded(-n)
    ELSE IF n < 10 THEN <<"0", Digit(n)>>
    ELSE IF n < 100 THEN <<Digit(n \div 10), Digit(n % 10)>>
    ELSE DecimalPadded(n \div 10) \o <<Digit(n % 10)>>

(* %d: the decimal digits of n, most significant first, "-" before a       *)
(* negative value.                                                         *)
RECURSIVE Decimal(_)
Decimal(n) ==
    IF n < 0 THEN <<"-">> \o Decimal(-n)
    ELSE IF n < 10 THEN <<Digit(n)>>
    ELSE Decimal(n \div 10) \o <<Digit(n % 10)>>

(* The format string without its final "\n". *)
FormatLineNoNewline(t) == Prefix \o Decimal(t)

(* The text one printf call produces for tid = t. *)
FormatLine(t) == Prefix \o Decimal(t) \o <<Newline>>

(* A stream that takes no lock, whatever its kind. *)
StreamNeverLocked == FALSE

(* printf runs under the lock of stdout. *)
StreamLocked == lineAtomic

(* What one printf call hands to stdout.  Under the lock the whole line is *)
(* one write; without it the literal text, the converted %d and the final  *)
(* "\n" are handed over one after the other, and other workers may hand    *)
(* over theirs in between.                                                 *)
Pieces(t) ==
    IF StreamLocked THEN << FormatLine(t) >>
    ELSE << Prefix, Decimal(t), <<Newline>> >>

----------------------------------------------------------------------------
(* The parallel region. *)

(* A team that leaves the encountering thread out. *)
TeamWithoutMaster(n) == 1 .. (n - 1)

(* #pragma omp parallel: the workers of a team of n threads; the thread    *)
(* that encountered the region is worker 0.                                *)
Team(n) == 0 .. (n - 1)

Call == Len(team)

RECURSIVE SumSeq(_)
SumSeq(s) == IF s = <<>> THEN 0 ELSE Head(s) + SumSeq(Tail(s))

(* A thread number that keeps counting over the calls made so far. *)
omp_get_thread_num_counting(w) == w + SumSeq(SubSeq(team, 1, Call - 1))

(* A thread number counted from one. *)
omp_get_thread_num_from_one(w) == w + 1

(* omp_get_thread_num(): the index of the calling worker in its team. *)
omp_get_thread_num(w) == w

(* tid declared outside the block: one variable shared by the team. *)
StoreTidShared(t, w, v) == [u \in DOMAIN t \cup {w} |-> v]

(* int tid = ...: tid is declared inside the block, so each worker has its *)
(* own; the assignment touches the variable of worker w only.              *)
StoreTid(t, w, v) == [u \in DOMAIN t \cup {w} |-> IF u = w THEN v ELSE t[u]]

(* printf waits until every worker with a lower index has printed. *)
PrintReadyOrdered(w) ==
    /\ pc[w] = "print"
    /\ \A u \in DOMAIN pc : u < w => pc[u] = "barrier"

(* Worker w is at the printf call; nothing else is waited for. *)
PrintReady(w) == pc[w] = "print"

(* The region ends as soon as the encountering thread is through. *)
BarrierOpenMasterOnly == 0 \in DOMAIN pc => pc[0] = "barrier"

(* The barrier waits for one arrival more than the team has members. *)
BarrierOpenOneMore ==
    Cardinality({w \in DOMAIN pc : pc[w] = "barrier"}) >= Cardinality(DOMAIN pc) + 1

(* The implicit barrier at the end of the region: every worker of the team *)
(* has finished the block.                                                 *)
BarrierOpen == \A w \in DOMAIN pc : pc[w] = "barrier"

----------------------------------------------------------------------------
(* Actions. *)

EmptyFn == [w \in {} |-> 0]

InitCommon ==
    /\ phase = "host"
    /\ team = <<>>
    /\ pc = EmptyFn
    /\ tid = EmptyFn
    /\ pos = EmptyFn
    /\ writes = <<>>
    /\ raced = FALSE

(* stdout as C11 and POSIX specify it and as the program finds it: one     *)
(* printf call is indivisible.                                             *)
Init == InitCommon /\ lineAtomic = TRUE

(* stdout of either kind: the host may have switched the lock off. *)
InitAnyStream == InitCommon /\ lineAtomic \in BOOLEAN

(* The host calls mylib_hello(); the runtime forks a team of n workers. *)
Enter(n) ==
    /\ phase = "host"
    /\ (SumSeq(team) + n) * Len(Pieces(0)) <= MaxWrites
    /\ phase' = "region"
    /\ team' = Append(team, n)
    /\ pc' = [w \in Team(n) |-> "tid"]
    /\ pos' = [w \in Team(n) |-> 0]
    /\ tid' = EmptyFn
    /\ UNCHANGED <<writes, lineAtomic, raced>>

(* int tid = omp_get_thread_num(); *)
GetTid(w) ==
    /\ pc[w] = "tid"
    /\ tid' = StoreTid(tid, w, omp_get_thread_num(w))
    /\ pc' = [pc EXCEPT ![w] = "print"]
    /\ UNCHANGED <<phase, team, pos, writes, lineAtomic, raced>>

(* printf("[mylib] Hello from thread %d\n", tid): the next write of the    *)
(* call; after the last one the worker falls through to the end of the     *)
(* block.  Without the lock, a worker that uses the stream after another   *)
(* worker of its team has used it races with that worker.                  *)
Printf(w) ==
    /\ PrintReady(w)
    /\ LET ps == Pieces(tid[w])
           k == pos[w] + 1
       IN /\ writes' = Append(writes, [call |-> Call, worker |-> w, text |-> ps[k]])
          /\ pos' = [pos EXCEPT ![w] = k]
          /\ pc' = [pc EXCEPT ![w] = IF k = Len(ps) THEN "barrier" ELSE "print"]
    /\ raced' = (raced \/ (~StreamLocked /\ \E u \in DOMAIN pos : u /= w /\ pos[u] >= 1))
    /\ UNCHANGED <<phase, team, tid, lineAtomic>>

(* A data race has happened: the behaviour is undefined.  Whatever it is   *)
(* (the process killed at once or later, text lost, repeated or replaced), *)
(* nothing more is known about the program or about stdout.                *)
Undefined ==
    /\ raced
    /\ phase /= "undefined"
    /\ phase' = "undefined"
    /\ pc' = [w \in DOMAIN pc |-> "undefined"]
    /\ UNCHANGED <<team, tid, pos, writes, lineAtomic, raced>>

(* The end of the region: the barrier opens, the locals go out of scope    *)
(* and mylib_hello() returns to the host.  Nothing is flushed.             *)
Return ==
    /\ phase = "region"
    /\ BarrierOpen
    /\ phase' = "host"
    /\ tid' = EmptyFn
    /\ UNCHANGED <<team, pc, pos, writes, lineAtomic, raced>>

Worker(w) == GetTid(w) \/ Printf(w)

(* The program; on the stream it finds no race ever happens. *)
Next ==
    \/ \E n \in 1 .. MaxWorkers : Enter(n)
    \/ \E w \in DOMAIN pc : GetTid(w)
    \/ \E w \in DOMAIN pc : Printf(w)
    \/ Return

(* The program on a stream of either kind. *)
NextAnyStream ==
    \/ \E n \in 1 .. MaxWorkers : Enter(n)
    \/ \E w \in DOMAIN pc : GetTid(w)
    \/ \E w \in DOMAIN pc : Printf(w)
    \/ Undefined
    \/ Return

Spec == Init /\ [][Next]_vars

SpecAnyStream == InitAnyStream /\ [][NextAnyStream]_vars

(* Every worker that can take a step eventually takes one; worker 0, the   *)
(* host thread, also takes the return.                                     *)
Fairness ==
    /\ \A w \in 0 .. MaxWorkers : WF_vars(w \in DOMAIN pc /\ Worker(w))
    /\ WF_vars(Return)

FairSpec == Spec /\ Fairness

----------------------------------------------------------------------------
(* What an observer of stdout sees, as long as the behaviour is defined. *)

Texts(ws) == [i \in 1 .. Len(ws) |-> ws[i].text]

(* The characters on stdout, in order. *)
Stdout == Flatten(Texts(writes))

(* The writes made during call c, and by worker w during call c. *)
WritesOf(c) == SelectSeq(writes, LAMBDA r : r.call = c)

WritesBy(c, w) == SelectSeq(writes, LAMBDA r : r.call = c /\ r.worker = w)

(* stdout as captured during call c. *)
CallText(c) == Flatten(Texts(WritesOf(c)))

(* The complete (newline-terminated) lines of a text, without the newline: *)
(* line k runs from after newline k-1 up to newline k.                     *)
NewlinesAt(s) == {j \in 1 .. Len(s) : s[j] = Newline}

Lines(s) ==
    LET nl == NewlinesAt(s)
        at(k) == IF k = 0 THEN 0
                 ELSE CHOOSE j \in nl : Cardinality({i \in nl : i <= j}) = k
    IN [k \in 1 .. Cardinality(nl) |-> SubSeq(s, at(k - 1) + 1, at(k) - 1)]

(* The call during which each complete line of stdout was terminated. *)
LineCalls ==
    LET ws == SelectSeq(writes, LAMBDA r : \E j \in 1 .. Len(r.text) : r.text[j] = Newline)
    IN [i \in 1 .. Len(ws) |-> ws[i].call]

HasPrefix(line) ==
    /\ Len(line) >= Len(Prefix)
    /\ SubSeq(line, 1, Len(Prefix)) = Prefix

Rest(line) == SubSeq(line, Len(Prefix) + 1, Len(line))

IsDigit(ch) == \E d \in 0 .. 9 : ch = Digit(d)

DigitValue(ch) == CHOOSE d \in 0 .. 9 : ch = Digit(d)

IsNumeral(ds) == ds /= <<>> /\ \A j \in 1 .. Len(ds) : IsDigit(ds[j])

RECURSIVE NumeralValue(_)
NumeralValue(ds) ==
    IF ds = <<>> THEN 0
    ELSE 10 * NumeralValue(SubSeq(ds, 1, Len(ds) - 1)) + DigitValue(ds[Len(ds)])

(* line is "[mylib] Hello from thread <N>", <N> a decimal numeral. *)
IsHelloLine(line) ==
    /\ HasPrefix(line)
    /\ IsNumeral(Rest(line))
    /\ (Len(Rest(line)) > 1 => Rest(line)[1] /= "0")

(* The index a line names; -1 when it is no hello line. *)
LineIndex(line) == IF IsHelloLine(line) THEN NumeralValue(Rest(line)) ELSE -1

(* The indices named by the complete lines of a text, in order. *)
Indices(s) ==
    LET ls == Lines(s)
    IN [k \in 1 .. Len(ls) |-> LineIndex(ls[k])]

Count(seq, x) == Cardinality({k \in 1 .. Len(seq) : seq[k] = x})

(* Call c has returned. *)
Completed(c) == c < Call \/ (c = Call /\ phase = "host")

(* A write of one worker lies between two writes of another worker's line. *)
Torn ==
    \E i, j, k \in 1 .. Len(writes) :
        /\ i < j /\ j < k
        /\ writes[i].call = writes[k].call
        /\ writes[i].worker = writes[k].worker
        /\ (writes[j].call /= writes[i].call \/ writes[j].worker /= writes[i].worker)

----------------------------------------------------------------------------
(* Properties. *)

(* The text "[mylib] Hello from thread 0" followed by a newline. *)
HelloFromThread0 ==
    << "[", "m", "y", "l", "i", "b", "]", " ",
       "H", "e", "l", "l", "o", " ",
       "f", "r", "o", "m", " ",
       "t", "h", "r", "e", "a", "d", " ", "0", "\n" >>

(* Back in the host, every worker of the last team has one complete line. *)
C1_AllPrintedAtReturn ==
    (phase = "host" /\ Call > 0) =>
        \A w \in 0 .. (team[Call] - 1) :
            Len(Lines(Flatten(Texts(WritesBy(Call, w))))) = 1

(* No step taken while the caller is in the host writes to stdout. *)
C1_NoWriteAfterReturn == [][phase = "host" => writes' = writes]_vars

(* C1: mylib_hello() returns only after every worker of the region has     *)
(* printed its line: whenever the caller is back in the host, each worker  *)
(* of the last team has its complete line on stdout, and no step taken     *)
(* while the caller is in the host adds anything to stdout.                *)
C1_ReturnsAfterAllPrinted == []C1_AllPrintedAtReturn /\ C1_NoWriteAfterReturn

C1_Witness ==
    /\ phase = "host"
    /\ Call >= 2
    /\ team[Call] >= 3
    /\ Len(WritesOf(Call)) = team[Call]

(* C2: when a call has returned, the indices printed during it are exactly *)
(* 0 .. N-1, each once: none duplicated, none missing, none other.         *)
C2_IndexMultiset ==
    \A c \in 1 .. Call :
        Completed(c) =>
            LET ix == Indices(CallText(c))
            IN /\ Len(ix) = team[c]
               /\ \A i \in 0 .. (team[c] - 1) : Count(ix, i) = 1

C2_Witness ==
    \E c \in 1 .. Call :
        /\ Completed(c)
        /\ team[c] = 4
        /\ Indices(CallText(c)) = <<2, 0, 3, 1>>

(* C3: the number of lines a call prints is the number of workers of its   *)
(* team, one line per worker; while the call runs, the lines printed so    *)
(* far never exceed the team size and no worker has printed two.           *)
C3_LineCount ==
    \A c \in 1 .. Call :
        LET n == Len(Lines(CallText(c)))
            by(w) == Len(Lines(Flatten(Texts(WritesBy(c, w)))))
        IN /\ n <= team[c]
           /\ \A w \in 0 .. (team[c] - 1) : by(w) <= 1
           /\ \A r \in {writes[i] : i \in 1 .. Len(writes)} :
                  r.call = c => r.worker \in 0 .. (team[c] - 1)
           /\ Completed(c) =>
                  /\ n = team[c]
                  /\ \A w \in 0 .. (team[c] - 1) : by(w) = 1

C3_Witness ==
    /\ phase = "region"
    /\ team[Call] = 3
    /\ Len(Lines(CallText(Call))) = 2
    /\ \E c \in 1 .. (Call - 1) : Len(Lines(CallText(c))) = team[c]

(* C4: every complete line on stdout reads "[mylib] Hello from thread <N>" *)
(* with <N> a decimal integer, 0 <= N < the team size of the region that   *)
(* printed the line.                                                       *)
C4_LineFormat ==
    LET ls == Lines(Stdout)
    IN /\ Len(ls) = Len(LineCalls)
       /\ \A k \in 1 .. Len(ls) :
              /\ IsHelloLine(ls[k])
              /\ 0 <= LineIndex(ls[k])
              /\ LineIndex(ls[k]) < team[LineCalls[k]]

C4_Witness ==
    LET ls == Lines(Stdout)
    IN /\ Len(ls) >= 5
       /\ \E k \in 1 .. Len(ls) : LineIndex(ls[k]) = 3
       /\ \E k \in 1 .. Len(ls) : team[LineCalls[k]] = 1

(* C5: no worker waits for another before printing: in every state each    *)
(* worker that has not finished the block can take its next step, whatever *)
(* the others have done, so the lines can come out in any order.           *)
C5_NoOrderImposed ==
    \A w \in DOMAIN pc : pc[w] /= "barrier" => ENABLED Worker(w)

C5_Witness ==
    \E c \in 1 .. Call :
        /\ Completed(c)
        /\ team[c] = 4
        /\ Indices(CallText(c)) = <<3, 2, 1, 0>>

(* C6: a call with a team of one worker prints the single line             *)
(* "[mylib] Hello from thread 0", written by worker 0, and nothing else.   *)
C6_SingleWorker ==
    \A c \in 1 .. Call :
        team[c] = 1 =>
            /\ CallText(c) \in {<<>>, HelloFromThread0}
            /\ \A i \in 1 .. Len(WritesOf(c)) : WritesOf(c)[i].worker = 0
            /\ Completed(c) => CallText(c) = HelloFromThread0

C6_Witness ==
    /\ Call = 1
    /\ team[1] = 1
    /\ phase = "host"
    /\ Stdout = HelloFromThread0

(* C7: calls do not share state: the lines of a call all precede the lines *)
(* of the next call, every call's indices lie in 0 .. N-1 of its own team  *)
(* without repetition, a returned call has printed all of them starting at *)
(* 0, and no tid survives the return.                                      *)
C7_CallsIndependent ==
    /\ \A i, j \in 1 .. Len(writes) : i < j => writes[i].call <= writes[j].call
    /\ phase = "host" => tid = EmptyFn
    /\ \A c \in 1 .. Call :
           LET ix == Indices(CallText(c))
           IN /\ \A k \in 1 .. Len(ix) : ix[k] \in 0 .. (team[c] - 1)
              /\ \A k, l \in 1 .. Len(ix) : ix[k] = ix[l] => k = l
              /\ Completed(c) => {ix[k] : k \in 1 .. Len(ix)} = 0 .. (team[c] - 1)

C7_Witness ==
    /\ Call = 3
    /\ phase = "host"
    /\ team = <<2, 3, 2>>
    /\ Indices(Stdout) = <<1, 0, 2, 0, 1, 0, 1>>

(* C8: on a stream that locks, so that one printf call is one indivisible  *)
(* write, no text lies inside another worker's line and the behaviour is   *)
(* never undefined; on a stream that does not, where the line is handed    *)
(* over in smaller writes, such torn output is reachable with two workers  *)
(* (the witness).                                                          *)
C8_AtomicNeverTorn == lineAtomic => (~Torn /\ ~raced /\ phase /= "undefined")

C8_Witness ==
    /\ ~lineAtomic
    /\ phase = "region"
    /\ team[Call] = 2
    /\ raced
    /\ Torn
    /\ Lines(Stdout) = << Prefix \o Prefix \o <<"1">>, <<"0">> >>

(* Inside a region some step is always possible. *)
C9_NoDeadlockInRegion == phase = "region" => ENABLED Next

(* C9: under weak fairness of the workers' steps every call returns, and   *)
(* inside a region some step is always possible.                           *)
C9_EveryCallReturns ==
    /\ []C9_NoDeadlockInRegion
    /\ \A c \in 1 .. MaxWrites : (Call = c /\ phase = "region") ~> (Call = c /\ phase = "host")

C9_Witness ==
    /\ phase = "host"
    /\ Call = 2
    /\ team = <<4, 3>>
    /\ Len(writes) = 7

(* Every tid holds its worker's index and every line names its writer. *)
C10_TidIsOwnIndex ==
    /\ \A w \in DOMAIN tid : tid[w] = w /\ w \in DOMAIN pc /\ pc[w] /= "tid"
    /\ \A i \in 1 .. Len(writes) :
           Indices(writes[i].text) = <<writes[i].worker>>

(* A tid appears by its worker's assignment and never changes afterwards. *)
C10_TidFrame ==
    [][ \A w \in DOMAIN tid' :
            IF w \in DOMAIN tid THEN tid'[w] = tid[w]
            ELSE pc[w] = "tid" /\ pc'[w] = "print" ]_vars

(* C10: tid is private: a worker's tid holds that worker's own index, it   *)
(* appears only by that worker's assignment, no step changes it afterwards *)
(* and the index in the line a worker prints is its own.                   *)
C10_TidPrivate == []C10_TidIsOwnIndex /\ C10_TidFrame

C10_Witness ==
    /\ phase = "region"
    /\ \E u, w \in DOMAIN tid :
           /\ u < w
           /\ pc[u] = "print"
           /\ pc[w] = "barrier"
           /\ \E x \in DOMAIN pc : pc[x] = "tid"

====
